---- MODULE Spec2Model ----
(***************************************************************************)
(* Model of admin/angel/Core.c: the bootstrap of the cjdns core process.   *)
(* Core_main is one sequential thread of control; an action is one         *)
(* statement (or one callee) of Core_main, taken in program order, or one  *)
(* callback run by the event loop that Core_main enters last.              *)
(* Byte strings are sequences of one-character strings, raw bytes are      *)
(* integers in 0..255.                                                     *)
(***************************************************************************)
EXTENDS Integers, Sequences, FiniteSets, TLC

\* ------------------------------------------------------------------ bounds
\* Size of the handshake buffer. The program's value lives in AngelChan.h;
\* the model uses a small buffer that still holds a full configuration.
AngelChan_INITIAL_CONF_BUFF_SIZE == 128

\* ------------------------------------------------------- program constants
PRIVATE_KEY_BYTES == 32
PRIVATE_KEY_HEX_LEN == 64
SYNC_MAGIC_BYTES == 8
SYNC_MAGIC_HEX_LEN == 16
RESPONSE_BUFF_SIZE == 64
REQUIRED_ARGC == 4
ADDRESS_PREFIX == 252
ADDRESS_BYTES == 16

\* ------------------------------------------------------------ characters
NUL == "NUL"

DigitChars == <<"0", "1", "2", "3", "4", "5", "6", "7", "8", "9">>

HexChars ==
    <<"0", "1", "2", "3", "4", "5", "6", "7", "8", "9", "a", "b", "c", "d", "e", "f">>

UpperHexChars == <<"A", "B", "C", "D", "E", "F">>

IsDigit(c) == \E i \in 1..10 : DigitChars[i] = c

DigitVal(c) == (CHOOSE i \in 1..10 : DigitChars[i] = c) - 1

Min(a, b) == IF a < b THEN a ELSE b

Repeat(s, n) == [i \in 1..(n * Len(s)) |-> s[((i - 1) % Len(s)) + 1]]

\* Decimal digits of a natural number, as the Angel writes length prefixes.
RECURSIVE Dec(_)
Dec(n) == IF n < 10 THEN <<DigitChars[n + 1]>> ELSE Dec(n \div 10) \o <<DigitChars[(n % 10) + 1]>>

\* ------------------------------------------------------------------- libc
\* strlen: number of characters before the first NUL.
strlen(s) ==
    LET nuls == {i \in 1..Len(s) : s[i] = NUL}
    IN IF nuls = {} THEN Len(s) ELSE (CHOOSE i \in nuls : \A j \in nuls : i <= j) - 1

\* strstr: index of the first occurrence of needle in hay, 0 when absent.
strstr(hay, needle) ==
    LET hits == {i \in 1..(Len(hay) - Len(needle) + 1) :
                    SubSeq(hay, i, i + Len(needle) - 1) = needle}
    IN IF hits = {} THEN 0 ELSE CHOOSE i \in hits : \A j \in hits : i <= j

RECURSIVE DigitsEnd(_, _)
DigitsEnd(b, p) == IF p <= Len(b) /\ IsDigit(b[p]) THEN DigitsEnd(b, p + 1) ELSE p

RECURSIVE ToNat(_)
ToNat(s) == IF s = <<>> THEN 0 ELSE 10 * ToNat(SubSeq(s, 1, Len(s) - 1)) + DigitVal(s[Len(s)])

RECURSIVE SkipSpace(_, _)
SkipSpace(s, p) == IF p <= Len(s) /\ s[p] = " " THEN SkipSpace(s, p + 1) ELSE p

\* atoi: leading blanks, an optional sign, then the longest run of digits;
\* whatever follows is ignored and no digits at all gives 0.
atoi(s) ==
    LET p == SkipSpace(s, 1)
        neg == p <= Len(s) /\ s[p] = "-"
        q == IF p <= Len(s) /\ s[p] \in {"-", "+"} THEN p + 1 ELSE p
        e == DigitsEnd(s, q)
        v == ToNat(SubSeq(s, q, e - 1))
    IN IF neg THEN 0 - v ELSE v

\* --------------------------------------------------------------- util/Hex
HexDigitVal(c) ==
    IF \E i \in 1..16 : HexChars[i] = c
    THEN (CHOOSE i \in 1..16 : HexChars[i] = c) - 1
    ELSE IF \E i \in 1..6 : UpperHexChars[i] = c
         THEN (CHOOSE i \in 1..6 : UpperHexChars[i] = c) + 9
         ELSE -1

\* Hex_encode: two lowercase hex characters per input byte.
Hex_encode(bytes) ==
    [i \in 1..(2 * Len(bytes)) |->
        IF i % 2 = 1 THEN HexChars[(bytes[(i + 1) \div 2] \div 16) + 1]
                     ELSE HexChars[(bytes[i \div 2] % 16) + 1]]

HexPairs(in) ==
    [i \in 1..(Len(in) \div 2) |-> 16 * HexDigitVal(in[2 * i - 1]) + HexDigitVal(in[2 * i])]

\* Hex_decode(output, length, in, inputLength): the number of bytes written,
\* negative when the input is too long, of odd length or not hexadecimal.
Hex_decode(length, in, inputLength) ==
    LET src == SubSeq(in, 1, Min(inputLength, Len(in)))
    IN IF length < inputLength \div 2 THEN [ret |-> -1, out |-> <<>>]
       ELSE IF inputLength % 2 = 1 \/ Len(src) < inputLength
                 \/ \E i \in 1..Len(src) : HexDigitVal(src[i]) < 0
            THEN [ret |-> -2, out |-> <<>>]
            ELSE [ret |-> inputLength \div 2, out |-> HexPairs(src)]

\* ------------------------------------------- benc/StandardBencSerializer
NULL == [null |-> TRUE]

ParseFail == [ok |-> FALSE]

ParseString(b, p) ==
    LET q == DigitsEnd(b, p)
    IN IF q = p \/ q > Len(b) \/ b[q] # ":" THEN ParseFail
       ELSE LET n == ToNat(SubSeq(b, p, q - 1))
            IN IF q + n > Len(b) THEN ParseFail
               ELSE [ok |-> TRUE,
                     val |-> [t |-> "s", v |-> SubSeq(b, q + 1, q + n)],
                     next |-> q + n + 1]

ParseInt(b, p) ==
    LET q == IF p + 1 <= Len(b) /\ b[p + 1] = "-" THEN p + 2 ELSE p + 1
        e == DigitsEnd(b, q)
    IN IF e = q \/ e > Len(b) \/ b[e] # "e" THEN ParseFail
       ELSE [ok |-> TRUE,
             val |-> [t |-> "i",
                      v |-> IF q = p + 2 THEN 0 - ToNat(SubSeq(b, q, e - 1))
                                         ELSE ToNat(SubSeq(b, q, e - 1))],
             next |-> e + 1]

RECURSIVE ParseValue(_, _)
RECURSIVE ParseEntries(_, _, _)
RECURSIVE ParseItems(_, _, _)

ParseValue(b, p) ==
    IF p > Len(b) THEN ParseFail
    ELSE IF b[p] = "d" THEN ParseEntries(b, p + 1, <<>>)
    ELSE IF b[p] = "l" THEN ParseItems(b, p + 1, <<>>)
    ELSE IF b[p] = "i" THEN ParseInt(b, p)
    ELSE IF IsDigit(b[p]) THEN ParseString(b, p)
    ELSE ParseFail

ParseEntries(b, p, acc) ==
    IF p > Len(b) THEN ParseFail
    ELSE IF b[p] = "e" THEN [ok |-> TRUE, val |-> [t |-> "d", v |-> acc], next |-> p + 1]
    ELSE LET k == ParseString(b, p)
         IN IF ~k.ok THEN ParseFail
            ELSE LET v == ParseValue(b, k.next)
                 IN IF ~v.ok THEN ParseFail
                    ELSE ParseEntries(b, v.next, Append(acc, [k |-> k.val.v, val |-> v.val]))

ParseItems(b, p, acc) ==
    IF p > Len(b) THEN ParseFail
    ELSE IF b[p] = "e" THEN [ok |-> TRUE, val |-> [t |-> "l", v |-> acc], next |-> p + 1]
    ELSE LET v == ParseValue(b, p)
         IN IF ~v.ok THEN ParseFail
            ELSE ParseItems(b, v.next, Append(acc, v.val))

\* parseDictionary(reader, alloc, config): 0 and the dictionary when the
\* reader starts with a complete dictionary, non-zero otherwise.
parseDictionary(reader) ==
    IF reader = <<>> \/ reader[1] # "d" THEN [ret |-> -1, dict |-> NULL]
    ELSE LET r == ParseValue(reader, 1)
         IN IF r.ok THEN [ret |-> 0, dict |-> [null |-> FALSE, entries |-> r.val.v]]
                    ELSE [ret |-> -1, dict |-> NULL]

\* ----------------------------------------------------------- benc/Dict
Dict_lookup(dict, key) ==
    IF dict.null THEN NULL
    ELSE LET hits == {i \in 1..Len(dict.entries) : dict.entries[i].k = key}
         IN IF hits = {} THEN NULL
            ELSE [null |-> FALSE,
                  val |-> dict.entries[CHOOSE i \in hits : \A j \in hits : i <= j].val]

\* Dict_getString: the string stored under key, NULL when the dictionary is
\* NULL, the key is absent or the value is not a string.
Dict_getString(dict, key) ==
    LET o == Dict_lookup(dict, key)
    IN IF o.null THEN NULL
       ELSE IF o.val.t # "s" THEN NULL
       ELSE [null |-> FALSE, bytes |-> o.val.v, len |-> Len(o.val.v)]

\* Dict_getDict: the dictionary stored under key, NULL otherwise.
Dict_getDict(dict, key) ==
    LET o == Dict_lookup(dict, key)
    IN IF o.null THEN NULL
       ELSE IF o.val.t # "d" THEN NULL
       ELSE [null |-> FALSE, entries |-> o.val.v]

\* --------------------------------------------- crypto / AddressCalc
\* The curve and the hash are outside this file. They are modelled as fixed
\* byte-mixing functions: deterministic, not the identity, and such that
\* some keys give an address inside FC00/8 and others do not.
crypto_scalarmult_curve25519_base(n) ==
    [i \in 1..PRIVATE_KEY_BYTES |->
        (9 * n[i] + 2 * n[(i % PRIVATE_KEY_BYTES) + 1] + i) % 256]

Digest(x) == [i \in 1..Len(x) |-> (7 * x[i] + 4 * x[(i % Len(x)) + 1] + i) % 256]

AddressCalc_addressForPublicKey(key) == SubSeq(Digest(Digest(key)), 1, ADDRESS_BYTES)

\* ----------------------------------------------------- the environment
S_admin == <<"a", "d", "m", "i", "n">>
S_pass == <<"p", "a", "s", "s">>
S_privateKey == <<"p", "r", "i", "v", "a", "t", "e", "K", "e", "y">>
S_pad == <<"p", "a", "d">>
S_password == <<"p", "w">>

BStr(s) == Dec(Len(s)) \o <<":">> \o s

\* A configuration as the Angel serialises it: keys in order, an optional
\* padding entry of padLen characters.
ConfigBlob(adminPart, padLen, keyPart) ==
    <<"d">> \o adminPart
            \o (IF padLen < 0 THEN <<>> ELSE BStr(S_pad) \o BStr(Repeat(<<"x">>, padLen)))
            \o keyPart \o <<"e">>

AdminEntry == BStr(S_admin) \o <<"d">> \o BStr(S_pass) \o BStr(S_password) \o <<"e">>

KeyEntry(hex) == BStr(S_privateKey) \o BStr(hex)

KeyFC == Repeat(<<"7", "9">>, PRIVATE_KEY_BYTES)
KeyNotFC == Repeat(<<"a", "b">>, PRIVATE_KEY_BYTES)

\* The valid configuration padded to exactly total characters.
PaddedBlob(total) ==
    LET fits == {n \in 0..AngelChan_INITIAL_CONF_BUFF_SIZE : Len(ConfigBlob(AdminEntry, n, KeyEntry(KeyFC))) = total}
    IN ConfigBlob(AdminEntry, CHOOSE n \in fits : TRUE, KeyEntry(KeyFC))

Blobs ==
    { ConfigBlob(AdminEntry, -1, KeyEntry(KeyFC)),
      ConfigBlob(AdminEntry, -1, KeyEntry(KeyNotFC)),
      ConfigBlob(AdminEntry, -1, <<>>),
      ConfigBlob(<<>>, -1, KeyEntry(KeyFC)),
      ConfigBlob(BStr(S_admin) \o <<"d", "e">>, -1, KeyEntry(KeyFC)),
      ConfigBlob(BStr(S_admin) \o <<"d">> \o BStr(S_pass) \o <<"i", "7", "e", "e">>,
                 -1, KeyEntry(KeyFC)),
      ConfigBlob(AdminEntry, -1, KeyEntry(SubSeq(KeyFC, 1, PRIVATE_KEY_HEX_LEN - 1))),
      ConfigBlob(AdminEntry, -1, KeyEntry(KeyFC \o <<"7">>)),
      ConfigBlob(AdminEntry, -1, KeyEntry(SubSeq(KeyFC, 1, PRIVATE_KEY_HEX_LEN - 1) \o <<"g">>)),
      ConfigBlob(AdminEntry, -1, BStr(S_privateKey) \o <<"i", "7", "e">>),
      SubSeq(ConfigBlob(AdminEntry, -1, KeyEntry(KeyFC)), 1, PRIVATE_KEY_HEX_LEN),
      <<"i", "5", "e">>,
      PaddedBlob(AngelChan_INITIAL_CONF_BUFF_SIZE - 1),
      PaddedBlob(AngelChan_INITIAL_CONF_BUFF_SIZE),
      PaddedBlob(AngelChan_INITIAL_CONF_BUFF_SIZE + 1) }

ToAngelArgs == { <<"3">>, <<"0">>, <<"x">>, <<"1", "2", "x">>, <<"-", "4">> }

FromAngelArgs == { <<"4">>, <<"0">>, <<>>, <<" ", "4", "x">> }

ArgCounts == {REQUIRED_ARGC - 1, REQUIRED_ARGC, REQUIRED_ARGC + 1}

\* argv as the launcher builds it: "cjdns core <toAngel> <fromAngel>"; with
\* one argument fewer the sub-command is missing, with one more there is a
\* stray trailing argument.
Argv(n, a, b) ==
    IF n < REQUIRED_ARGC THEN <<<<"c", "j", "d", "n", "s">>, a, b>>
    ELSE SubSeq(<<<<"c", "j", "d", "n", "s">>, <<"c", "o", "r", "e">>, a, b, <<"9">>>>, 1, n)

\* Descriptors the launcher left open.
OpenFds == {3, 4, 12}

\* Values randombytes may deliver.
Magics ==
    { <<0, 0, 0, 0, 0, 0, 0, 0>>,
      <<1, 35, 69, 103, 137, 171, 205, 239>>,
      <<255, 254, 16, 15, 160, 10, 9, 128>> }

\* ----------------------------------------------------------- the state
VARIABLES
    pc,             \* the statement of Core_main about to run
    argc, argv,     \* the invocation
    fromAngelPipe,  \* unread bytes the Angel has written
    toAngelPipe,    \* what has been written to the Angel, in order
    blob,           \* the configuration the Angel sent (never changes)
    syncMagic,      \* uint8_t syncMagic[8]
    eh,             \* the exception handler in force
    toAngel, fromAngel,
    alloc,          \* TRUE once the root allocator exists
    wrappedLog,     \* indirectLogger->wrappedLog
    logger,         \* the local variable logger
    buff, amountRead,
    config, pass, privateKeyHex,
    privateKey,     \* uint8_t privateKey[32]
    addr,           \* struct Address addr
    admin,          \* what Admin_new was given, NULL before
    adminFunctions, \* the admin method table, in registration order
    registry,       \* the DHT module registry, in registration order
    calls,          \* constructor and register calls made, with arguments
    lastError,      \* message of the exception raised, "" when none
    trace,          \* statements of Core_main executed so far
    bytesAllocated, \* bytes counted against the root allocator and its children
    childBytes,     \* the part of them held by a child allocator
    requests,       \* admin requests the event loop has taken, in order
    exitStatus,     \* the argument of exit(), -1 while exit was not called
    lastDispatch,   \* the last DHT message and the modules it was offered to
    requested,      \* the size last asked of the allocator
    events          \* event-loop callbacks run so far

vars ==
    <<pc, argc, argv, fromAngelPipe, toAngelPipe, blob, syncMagic, eh, toAngel,
      fromAngel, alloc, wrappedLog, logger, buff, amountRead, config, pass,
      privateKeyHex, privateKey, addr, admin, adminFunctions, registry, calls,
      lastError, trace, bytesAllocated, childBytes, requests, exitStatus,
      lastDispatch, requested, events>>

\* What only the event loop changes.
loopVars == <<childBytes, requests, exitStatus, lastDispatch, events>>

\* The statements of Core_main in program order.
Core_main_statements ==
    << "randombytes", "checkArgs", "MallocAllocator_new", "fdopen", "setupPreLogger",
       "Waiter_getData", "parseDictionary", "validateConfig", "sendResponse",
       "Admin_new", "AdminLog_registerNew", "parsePrivateKey", "CryptoAuth_new",
       "SwitchCore_new", "DHTModuleRegistry_new", "ReplyModule_register",
       "RouterModule_register", "SerializationModule_register", "Ducttape_register",
       "SwitchPinger_new", "DefaultInterfaceController_new",
       "SwitchPinger_admin_register", "UDPInterface_admin_register",
       "RouterModule_admin_register", "AuthorizedPasswords_init", "register_ping",
       "register_Core_exit", "Core_admin_register", "Security_admin_register",
       "register_memory", "event_base_dispatch" >>

Swap(seq, a, b) ==
    [i \in 1..Len(seq) |-> IF seq[i] = a THEN b ELSE IF seq[i] = b THEN a ELSE seq[i]]

\* Slips in the order of statements: the crypto-session layer built before
\* the key is checked, the response sent before the key is validated, the
\* router registered before the reply module.
Core_main_order_CryptoAuthFirst ==
    Swap(Core_main_statements, "parsePrivateKey", "CryptoAuth_new")

Core_main_order_ResponseFirst ==
    Swap(Core_main_statements, "validateConfig", "sendResponse")

Core_main_order_RouterFirst ==
    Swap(Core_main_statements, "ReplyModule_register", "RouterModule_register")

\* More slips: the last registration left for after the event loop has been
\* entered, the reply module registered last, the response sent before the
\* configuration is decoded.
Core_main_order_DispatchEarly ==
    Swap(Core_main_statements, "register_memory", "event_base_dispatch")

Core_main_order_ReplyLast ==
    Swap(Core_main_statements, "ReplyModule_register", "SerializationModule_register")

Core_main_order_ResponseBeforeParse ==
    Swap(Core_main_statements, "parseDictionary", "sendResponse")

Core_main_order == Core_main_statements

\* The statement after label l; the event loop after the last one.
After(l) ==
    LET i == CHOOSE j \in 1..Len(Core_main_order) : Core_main_order[j] = l
    IN IF i = Len(Core_main_order) THEN "eventLoop" ELSE Core_main_order[i + 1]

Init ==
    /\ pc = Core_main_order[1]
    /\ argc \in ArgCounts
    /\ \E a \in ToAngelArgs, b \in FromAngelArgs : argv = Argv(argc, a, b)
    /\ blob \in Blobs
    /\ fromAngelPipe = blob
    /\ toAngelPipe = <<>>
    /\ syncMagic = <<>>
    /\ eh = "none"
    /\ toAngel = 0
    /\ fromAngel = 0
    /\ alloc = FALSE
    /\ wrappedLog = "none"
    /\ logger = "none"
    /\ buff = <<>>
    /\ amountRead = 0
    /\ config = NULL
    /\ pass = NULL
    /\ privateKeyHex = NULL
    /\ privateKey = <<>>
    /\ addr = [key |-> <<>>, ip6 |-> <<>>]
    /\ admin = NULL
    /\ adminFunctions = <<>>
    /\ registry = <<>>
    /\ calls = <<>>
    /\ lastError = ""
    /\ trace = <<>>
    /\ bytesAllocated = 0
    /\ childBytes = 0
    /\ requests = <<>>
    /\ exitStatus = -1
    /\ lastDispatch = [matches |-> {}, offered |-> <<>>, consumedBy |-> "none"]
    /\ requested = 0
    /\ events = 0

\* ------------------------------------------------------------ exceptions
\* Except_raise(eh, code, message): the handler reports the message (the
\* write handler on the pipe to the Angel, the abort handler not) and the
\* process ends; control never comes back.
Except_raise(message) ==
    /\ pc' = "fatal"
    /\ lastError' = message
    /\ toAngelPipe' = IF eh = "WriteErrorHandler"
                      THEN Append(toAngelPipe, [kind |-> "error", data |-> message])
                      ELSE toAngelPipe

\* Normal completion of the statement at pc.
Return ==
    /\ pc' = After(pc)
    /\ UNCHANGED <<lastError, toAngelPipe>>

Did == trace' = Append(trace, pc)

\* ------------------------------------------------------ the root allocator
\* The failsafe with the shift one bit further.
ALLOCATOR_FAILSAFE_shifted == 2 * 4194304

\* #define ALLOCATOR_FAILSAFE (1<<22)
ALLOCATOR_FAILSAFE == 4194304

\* sizeof(struct MemoryContext): two pointers.
MemoryContext_SIZE == 16

\* Bound: the size of a small object. A callee may ask the allocator it is
\* given for a small object or for half of what the failsafe allows; a
\* callback of the event loop may also ask for all of it.
SmallAlloc == 64

CalleeSizes == {SmallAlloc, ALLOCATOR_FAILSAFE \div 2}

LoopSizes == CalleeSizes \cup {ALLOCATOR_FAILSAFE}

\* The allocator refuses by ending the process; nothing else has happened.
OutOfMemory ==
    /\ pc' = "aborted"
    /\ lastError' = "Out of memory"
    /\ UNCHANGED <<argc, argv, fromAngelPipe, toAngelPipe, blob, syncMagic, eh,
                   toAngel, fromAngel, alloc, wrappedLog, logger, buff, amountRead,
                   config, pass, privateKeyHex, privateKey, addr, admin,
                   adminFunctions, registry, calls, bytesAllocated, childBytes,
                   requests, exitStatus, lastDispatch>>

\* An allocation of size bytes made by the statement at pc, which goes on
\* with rest when the total stays within the failsafe; when it does not the
\* process ends inside the allocator and the statement has done nothing.
Allocator_malloc(size, rest) ==
    /\ requested' = size
    /\ IF bytesAllocated + size <= ALLOCATOR_FAILSAFE
       THEN /\ bytesAllocated' = bytesAllocated + size
            /\ rest
       ELSE /\ OutOfMemory
            /\ UNCHANGED <<trace, events>>

\* MallocAllocator_bytesAllocated(allocator)
MallocAllocator_bytesAllocated == bytesAllocated

\* ------------------------------------------------------- Core_main, 193-221
\* randombytes(syncMagic, 8)
GenerateSyncMagic ==
    /\ pc = "randombytes"
    /\ syncMagic' \in Magics
    /\ Return /\ Did
    /\ UNCHANGED <<argc, argv, fromAngelPipe, blob, eh, toAngel, fromAngel, alloc,
                   wrappedLog, logger, buff, amountRead, config, pass, privateKeyHex,
                   privateKey, addr, admin, adminFunctions, registry, calls>>
    /\ UNCHANGED <<bytesAllocated, requested>>
    /\ UNCHANGED loopVars

\* The argument test of lines 199-201, with C's left-to-right short circuit:
\* argv[2] and argv[3] are read only when argc is 4.
ArgsRejected_fromAngelUnchecked ==
    \/ argc # REQUIRED_ARGC
    \/ atoi(argv[3]) = 0

ArgsRejected ==
    \/ argc # REQUIRED_ARGC
    \/ atoi(argv[3]) = 0
    \/ atoi(argv[4]) = 0

CheckArgs ==
    /\ pc = "checkArgs"
    /\ eh' = "AbortHandler"
    /\ IF ArgsRejected
       THEN /\ Except_raise("This is internal to cjdns and shouldn't started manually.")
            /\ toAngel' = IF argc = REQUIRED_ARGC THEN atoi(argv[3]) ELSE toAngel
            /\ UNCHANGED fromAngel
       ELSE /\ Return
            /\ toAngel' = atoi(argv[3])
            /\ fromAngel' = atoi(argv[4])
    /\ Did
    /\ UNCHANGED <<argc, argv, fromAngelPipe, blob, syncMagic, alloc, wrappedLog,
                   logger, buff, amountRead, config, pass, privateKeyHex, privateKey,
                   addr, admin, adminFunctions, registry, calls>>
    /\ UNCHANGED <<bytesAllocated, requested>>
    /\ UNCHANGED loopVars

\* MallocAllocator_new(ALLOCATOR_FAILSAFE)
NewAllocator ==
    /\ pc = "MallocAllocator_new"
    /\ alloc' = TRUE
    /\ Return /\ Did
    /\ UNCHANGED <<argc, argv, fromAngelPipe, blob, syncMagic, eh, toAngel, fromAngel,
                   wrappedLog, logger, buff, amountRead, config, pass, privateKeyHex,
                   privateKey, addr, admin, adminFunctions, registry, calls>>
    /\ UNCHANGED <<bytesAllocated, requested>>
    /\ UNCHANGED loopVars

\* Lines 209-212 without the assignment to eh.
OpenToAngel_handlerKept ==
    /\ pc = "fdopen"
    /\ IF toAngel \in OpenFds
       THEN \E size \in CalleeSizes :
              Allocator_malloc(size,
                 /\ UNCHANGED eh
                 /\ Return /\ Did)
       ELSE /\ pc' = "aborted"
            /\ lastError' = "Assertion failure: toAngelF != NULL"
            /\ Did
            /\ UNCHANGED <<eh, toAngelPipe, bytesAllocated, requested>>
    /\ UNCHANGED <<argc, argv, fromAngelPipe, blob, syncMagic, toAngel, fromAngel,
                   alloc, wrappedLog, logger, buff, amountRead, config, pass,
                   privateKeyHex, privateKey, addr, admin, adminFunctions, registry,
                   calls>>
    /\ UNCHANGED loopVars

\* fdopen(toAngel, "w"), Assert_always, FileWriter_new, WriteErrorHandler_new.
OpenToAngel ==
    /\ pc = "fdopen"
    /\ IF toAngel \in OpenFds
       THEN \E size \in CalleeSizes :
              Allocator_malloc(size,
                 /\ eh' = "WriteErrorHandler"
                 /\ Return /\ Did)
       ELSE /\ pc' = "aborted"
            /\ lastError' = "Assertion failure: toAngelF != NULL"
            /\ Did
            /\ UNCHANGED <<eh, toAngelPipe, bytesAllocated, requested>>
    /\ UNCHANGED <<argc, argv, fromAngelPipe, blob, syncMagic, toAngel, fromAngel,
                   alloc, wrappedLog, logger, buff, amountRead, config, pass,
                   privateKeyHex, privateKey, addr, admin, adminFunctions, registry,
                   calls>>
    /\ UNCHANGED loopVars

\* event_base_new and the pre-logger, lines 214-221.
SetupPreLogger ==
    /\ pc = "setupPreLogger"
    /\ \E size \in CalleeSizes :
         Allocator_malloc(size,
            /\ wrappedLog' = "preLogger"
            /\ logger' = "indirectLogger"
            /\ Return /\ Did
            /\ UNCHANGED <<argc, argv, fromAngelPipe, blob, syncMagic, eh, toAngel, fromAngel,
                           alloc, buff, amountRead, config, pass, privateKeyHex, privateKey,
                           addr, admin, adminFunctions, registry, calls>>
            /\ UNCHANGED loopVars)

\* ------------------------------------------- getInitialConfig, 123-142
\* Waiter_getData(buff, size, fromAngel, ...): what is waiting on the pipe is
\* copied into the zeroed buffer, size bytes at most; returns the count.
Waiter_getData(pipe, size) ==
    LET n == Min(Len(pipe), size)
    IN [amountRead |-> n,
        buff |-> SubSeq(pipe, 1, n) \o Repeat(<<NUL>>, size - n),
        rest |-> SubSeq(pipe, n + 1, Len(pipe))]

\* Lines 128-133: the read and the test for a full buffer.
ReadInitialConfig ==
    /\ pc = "Waiter_getData"
    /\ LET r == Waiter_getData(fromAngelPipe, AngelChan_INITIAL_CONF_BUFF_SIZE)
       IN /\ buff' = r.buff
          /\ amountRead' = r.amountRead
          /\ fromAngelPipe' = r.rest
          /\ IF r.amountRead = AngelChan_INITIAL_CONF_BUFF_SIZE
             THEN Except_raise("initial config exceeds INITIAL_CONF_BUFF_SIZE")
             ELSE Return
    /\ Did
    /\ UNCHANGED <<argc, argv, blob, syncMagic, eh, toAngel, fromAngel, alloc,
                   wrappedLog, logger, config, pass, privateKeyHex, privateKey, addr,
                   admin, adminFunctions, registry, calls>>
    /\ UNCHANGED <<bytesAllocated, requested>>
    /\ UNCHANGED loopVars

\* Lines 135-141: decode the buffer; the buffer dies with the call frame.
ParseInitialConfig ==
    /\ pc = "parseDictionary"
    /\ \E size \in CalleeSizes :
         Allocator_malloc(size,
            /\ LET r == parseDictionary(buff)
               IN IF r.ret # 0
                  THEN /\ Except_raise("Failed to parse initial configuration.")
                       /\ UNCHANGED <<config, buff>>
                  ELSE /\ config' = r.dict
                       /\ buff' = <<>>
                       /\ Return
            /\ Did
            /\ UNCHANGED <<argc, argv, fromAngelPipe, blob, syncMagic, eh, toAngel, fromAngel,
                           alloc, wrappedLog, logger, amountRead, pass, privateKeyHex,
                           privateKey, addr, admin, adminFunctions, registry, calls>>
            /\ UNCHANGED loopVars)

\* ------------------------------------------------- Core_main, 225-237
\* The test of lines 233-234 without its length comparison.
PrivateKeyRejected_lengthUnchecked(hex) ==
    Hex_decode(PRIVATE_KEY_BYTES, hex.bytes, PRIVATE_KEY_HEX_LEN).ret # PRIVATE_KEY_BYTES

\* The test of lines 233-234 on a non-NULL privateKeyHex.
PrivateKeyRejected(hex) ==
    \/ hex.len # PRIVATE_KEY_HEX_LEN
    \/ Hex_decode(PRIVATE_KEY_BYTES, hex.bytes, PRIVATE_KEY_HEX_LEN).ret # PRIVATE_KEY_BYTES

ValidateConfig ==
    /\ pc = "validateConfig"
    /\ LET keyHex == Dict_getString(config, S_privateKey)
           adminConf == Dict_getDict(config, S_admin)
           password == Dict_getString(adminConf, S_pass)
       IN /\ privateKeyHex' = keyHex
          /\ pass' = password
          /\ IF password.null \/ keyHex.null
             THEN /\ Except_raise("Expected 'pass' and 'privateKey' in configuration.")
                  /\ UNCHANGED privateKey
             ELSE IF PrivateKeyRejected(keyHex)
             THEN /\ Except_raise("privateKey must be 64 bytes of hex.")
                  /\ UNCHANGED privateKey
             ELSE /\ privateKey' =
                         Hex_decode(PRIVATE_KEY_BYTES, keyHex.bytes, PRIVATE_KEY_HEX_LEN).out
                  /\ Return
    /\ Did
    /\ UNCHANGED <<argc, argv, fromAngelPipe, blob, syncMagic, eh, toAngel, fromAngel,
                   alloc, wrappedLog, logger, buff, amountRead, config, addr, admin,
                   adminFunctions, registry, calls>>
    /\ UNCHANGED <<bytesAllocated, requested>>
    /\ UNCHANGED loopVars

\* ------------------------------------------------- sendResponse, 144-158
Placeholder ==
    <<"\\1", "\\1", "\\2", "\\3", "\\4", "\\5", "\\6", "\\7",
      "\\1", "\\1", "\\2", "\\3", "\\4", "\\5", "\\6", "\\7">>

\* char buff[64] = "d" "5:angel" "d" "9:syncMagic" "16:<placeholder>" "e" "e"
ResponseTemplate ==
    LET text == <<"d", "5", ":", "a", "n", "g", "e", "l", "d",
                  "9", ":", "s", "y", "n", "c", "M", "a", "g", "i", "c",
                  "1", "6", ":">> \o Placeholder \o <<"e", "e">>
    IN text \o Repeat(<<NUL>>, RESPONSE_BUFF_SIZE - Len(text))

\* sendResponse without the call of Hex_encode.
sendResponse_unencoded(magic) == SubSeq(ResponseTemplate, 1, strlen(ResponseTemplate))

\* The bytes sendResponse writes for the given syncMagic; <<>> when the
\* assertion on location fails.
sendResponse(magic) ==
    LET length == strlen(ResponseTemplate)
        location == strstr(ResponseTemplate, Placeholder)
        hex == Hex_encode(magic)
        filled == [i \in 1..RESPONSE_BUFF_SIZE |->
                      IF i >= location /\ i < location + SYNC_MAGIC_HEX_LEN
                      THEN hex[i - location + 1]
                      ELSE ResponseTemplate[i]]
    IN IF location > 1 THEN SubSeq(filled, 1, length) ELSE <<>>

SendResponse ==
    /\ pc = "sendResponse"
    /\ LET out == sendResponse(syncMagic)
       IN IF out = <<>>
          THEN /\ pc' = "aborted"
               /\ lastError' = "Assertion failure: location > buff"
               /\ UNCHANGED toAngelPipe
          ELSE /\ toAngelPipe' = Append(toAngelPipe, [kind |-> "response", data |-> out])
               /\ pc' = After(pc)
               /\ UNCHANGED lastError
    /\ Did
    /\ UNCHANGED <<argc, argv, fromAngelPipe, blob, syncMagic, eh, toAngel, fromAngel,
                   alloc, wrappedLog, logger, buff, amountRead, config, pass,
                   privateKeyHex, privateKey, addr, admin, adminFunctions, registry,
                   calls>>
    /\ UNCHANGED <<bytesAllocated, requested>>
    /\ UNCHANGED loopVars

\* ------------------------------------------ constructor calls, 241-299
NoArgs(fn) ==
    [fn |-> fn, privateKey |-> <<>>, publicKey |-> <<>>, ip6 |-> <<>>,
     syncMagic |-> <<>>, logger |-> "none", alloc |-> FALSE, admin |-> FALSE,
     registry |-> FALSE]

\* The arguments Core_main passes to each callee, from the call sites.
CallSiteArgs(fn) ==
    CASE fn = "Admin_new" ->
           [NoArgs(fn) EXCEPT !.alloc = alloc, !.logger = logger, !.syncMagic = syncMagic]
      [] fn = "AdminLog_registerNew" ->
           [NoArgs(fn) EXCEPT !.alloc = alloc, !.admin = TRUE]
      [] fn = "CryptoAuth_new" ->
           [NoArgs(fn) EXCEPT !.alloc = alloc, !.privateKey = privateKey, !.logger = logger]
      [] fn = "SwitchCore_new" ->
           [NoArgs(fn) EXCEPT !.alloc = alloc, !.logger = logger]
      [] fn = "DHTModuleRegistry_new" ->
           [NoArgs(fn) EXCEPT !.alloc = alloc]
      [] fn = "ReplyModule_register" ->
           [NoArgs(fn) EXCEPT !.alloc = alloc, !.registry = TRUE]
      [] fn = "RouterModule_register" ->
           [NoArgs(fn) EXCEPT !.alloc = alloc, !.registry = TRUE, !.publicKey = addr.key,
                              !.logger = logger, !.admin = TRUE]
      [] fn = "SerializationModule_register" ->
           [NoArgs(fn) EXCEPT !.alloc = alloc, !.registry = TRUE]
      [] fn = "Ducttape_register" ->
           [NoArgs(fn) EXCEPT !.alloc = alloc, !.registry = TRUE, !.privateKey = privateKey,
                              !.logger = logger, !.admin = TRUE]
      [] fn = "SwitchPinger_new" ->
           [NoArgs(fn) EXCEPT !.alloc = alloc, !.logger = logger]
      [] fn = "DefaultInterfaceController_new" ->
           [NoArgs(fn) EXCEPT !.alloc = alloc, !.logger = logger]
      [] fn = "SwitchPinger_admin_register" ->
           [NoArgs(fn) EXCEPT !.alloc = alloc, !.admin = TRUE]
      [] fn = "UDPInterface_admin_register" ->
           [NoArgs(fn) EXCEPT !.alloc = alloc, !.logger = logger, !.admin = TRUE]
      [] fn = "RouterModule_admin_register" ->
           [NoArgs(fn) EXCEPT !.alloc = alloc, !.admin = TRUE]
      [] fn = "AuthorizedPasswords_init" ->
           [NoArgs(fn) EXCEPT !.alloc = alloc, !.admin = TRUE]
      [] fn = "Core_admin_register" ->
           [NoArgs(fn) EXCEPT !.alloc = alloc, !.ip6 = addr.ip6, !.logger = logger,
                              !.admin = TRUE]
      [] fn = "Security_admin_register" ->
           [NoArgs(fn) EXCEPT !.alloc = alloc, !.logger = logger, !.admin = TRUE]

\* The call sites with the raw private key also handed to the router.
CallArgs_keyToRouter(fn) ==
    IF fn = "RouterModule_register"
    THEN [CallSiteArgs(fn) EXCEPT !.privateKey = privateKey]
    ELSE CallSiteArgs(fn)

CallArgs(fn) == CallSiteArgs(fn)

Called == calls' = Append(calls, CallArgs(pc))

\* Admin_new(fromAngel, toAngel, alloc, logger, eventBase, pass, syncMagic)
AdminNew ==
    /\ pc = "Admin_new"
    /\ \E size \in CalleeSizes :
         Allocator_malloc(size,
            /\ admin' = [null |-> FALSE, fromAngel |-> fromAngel, toAngel |-> toAngel,
                         logger |-> logger, password |-> pass.bytes, syncMagic |-> syncMagic]
            /\ Called /\ Return /\ Did
            /\ UNCHANGED <<argc, argv, fromAngelPipe, blob, syncMagic, eh, toAngel, fromAngel,
                           alloc, wrappedLog, logger, buff, amountRead, config, pass,
                           privateKeyHex, privateKey, addr, adminFunctions, registry>>
            /\ UNCHANGED loopVars)

\* Lines 246-247 without line 248: the local variable keeps the indirect
\* logger.
SetupLogger_localKept ==
    /\ pc = "AdminLog_registerNew"
    /\ \E size \in CalleeSizes :
         Allocator_malloc(size,
            /\ wrappedLog' = "adminLogger"
            /\ UNCHANGED logger
            /\ Called /\ Return /\ Did
            /\ UNCHANGED <<argc, argv, fromAngelPipe, blob, syncMagic, eh, toAngel,
                           fromAngel, alloc, buff, amountRead, config, pass,
                           privateKeyHex, privateKey, addr, admin, adminFunctions,
                           registry>>
            /\ UNCHANGED loopVars)

\* Lines 246-248: the admin logger replaces the pre-logger.
SetupLogger ==
    /\ pc = "AdminLog_registerNew"
    /\ \E size \in CalleeSizes :
         Allocator_malloc(size,
            /\ wrappedLog' = "adminLogger"
            /\ logger' = "adminLogger"
            /\ Called /\ Return /\ Did
            /\ UNCHANGED <<argc, argv, fromAngelPipe, blob, syncMagic, eh, toAngel, fromAngel,
                           alloc, buff, amountRead, config, pass, privateKeyHex, privateKey,
                           addr, admin, adminFunctions, registry>>
            /\ UNCHANGED loopVars)

\* ----------------------------------------------- parsePrivateKey, 86-95
\* parsePrivateKey without its range check.
parsePrivateKey_unchecked(key) ==
    LET pub == crypto_scalarmult_curve25519_base(key)
        ip6 == AddressCalc_addressForPublicKey(pub)
    IN [addr |-> [key |-> pub, ip6 |-> ip6], raised |-> FALSE]

parsePrivateKey(key) ==
    LET pub == crypto_scalarmult_curve25519_base(key)
        ip6 == AddressCalc_addressForPublicKey(pub)
    IN [addr |-> [key |-> pub, ip6 |-> ip6], raised |-> ip6[1] # ADDRESS_PREFIX]

ParsePrivateKey ==
    /\ pc = "parsePrivateKey"
    /\ LET r == parsePrivateKey(privateKey)
       IN /\ addr' = r.addr
          /\ IF r.raised
             THEN Except_raise("Ip address outside of the FC00/8 range, invalid private key.")
             ELSE Return
    /\ Did
    /\ UNCHANGED <<argc, argv, fromAngelPipe, blob, syncMagic, eh, toAngel, fromAngel,
                   alloc, wrappedLog, logger, buff, amountRead, config, pass,
                   privateKeyHex, privateKey, admin, adminFunctions, registry, calls>>
    /\ UNCHANGED <<bytesAllocated, requested>>
    /\ UNCHANGED loopVars

\* ------------------------------------------------- Core_main, 254-290
PlainConstructors ==
    {"CryptoAuth_new", "SwitchCore_new", "SwitchPinger_new",
     "DefaultInterfaceController_new"}

\* A constructor that touches neither the registry nor the admin table.
Construct ==
    /\ pc \in PlainConstructors
    /\ \E size \in CalleeSizes :
         Allocator_malloc(size,
            /\ Called /\ Return /\ Did
            /\ UNCHANGED <<argc, argv, fromAngelPipe, blob, syncMagic, eh, toAngel, fromAngel,
                           alloc, wrappedLog, logger, buff, amountRead, config, pass,
                           privateKeyHex, privateKey, addr, admin, adminFunctions, registry>>
            /\ UNCHANGED loopVars)

\* DHTModuleRegistry_new(alloc): an empty registry.
NewRegistry ==
    /\ pc = "DHTModuleRegistry_new"
    /\ \E size \in CalleeSizes :
         Allocator_malloc(size,
            /\ registry' = <<>>
            /\ Called /\ Return /\ Did
            /\ UNCHANGED <<argc, argv, fromAngelPipe, blob, syncMagic, eh, toAngel, fromAngel,
                           alloc, wrappedLog, logger, buff, amountRead, config, pass,
                           privateKeyHex, privateKey, addr, admin, adminFunctions>>
            /\ UNCHANGED loopVars)

\* The module each register call appends to the registry it is given.
RegisteredModule(fn) ==
    CASE fn = "ReplyModule_register" -> <<"ReplyModule">>
      [] fn = "RouterModule_register" -> <<"RouterModule">>
      [] fn = "SerializationModule_register" -> <<"SerializationModule">>
      [] fn = "Ducttape_register" -> <<>>

RegisterModule ==
    /\ pc \in {"ReplyModule_register", "RouterModule_register",
               "SerializationModule_register", "Ducttape_register"}
    /\ \E size \in CalleeSizes :
         Allocator_malloc(size,
            /\ registry' = registry \o RegisteredModule(pc)
            /\ Called /\ Return /\ Did
            /\ UNCHANGED <<argc, argv, fromAngelPipe, blob, syncMagic, eh, toAngel, fromAngel,
                           alloc, wrappedLog, logger, buff, amountRead, config, pass,
                           privateKeyHex, privateKey, addr, admin, adminFunctions>>
            /\ UNCHANGED loopVars)

\* ------------------------------------------------- Core_main, 292-311
HasFunction(name) == \E i \in 1..Len(adminFunctions) : adminFunctions[i].name = name

\* Admin_registerFunction(name, callback, context, needsAuth, args, admin):
\* a name already in the table ends the process at once.
Admin_registerFunction(name, needsAuth, by) ==
    IF HasFunction(name)
    THEN /\ pc' = "aborted"
         /\ lastError' = "duplicate admin function"
         /\ UNCHANGED <<adminFunctions, toAngelPipe>>
    ELSE /\ adminFunctions' =
                Append(adminFunctions, [name |-> name, needsAuth |-> needsAuth, by |-> by])
         /\ Return

\* Method names a module may bring to the table. The modules' own files fix
\* them; here each brings its own name, and three of them may instead collide
\* with a name of the bootstrap.
ModuleMethodNames(fn) ==
    CASE fn = "SwitchPinger_admin_register" -> {"SwitchPinger_ping", "ping"}
      [] fn = "UDPInterface_admin_register" -> {"UDPInterface_beginConnection"}
      [] fn = "RouterModule_admin_register" -> {"RouterModule_lookup"}
      [] fn = "AuthorizedPasswords_init" -> {"AuthorizedPasswords_add"}
      [] fn = "Core_admin_register" -> {"Core_initTunnel", "Core_exit"}
      [] fn = "Security_admin_register" -> {"Security_setUser", "memory"}

RegisterModuleMethods ==
    /\ pc \in {"SwitchPinger_admin_register", "UDPInterface_admin_register",
               "RouterModule_admin_register", "AuthorizedPasswords_init",
               "Core_admin_register", "Security_admin_register"}
    /\ \E size \in CalleeSizes :
         Allocator_malloc(size,
            /\ \E name \in ModuleMethodNames(pc) : Admin_registerFunction(name, TRUE, pc)
            /\ Called /\ Did
            /\ UNCHANGED <<argc, argv, fromAngelPipe, blob, syncMagic, eh, toAngel, fromAngel,
                           alloc, wrappedLog, logger, buff, amountRead, config, pass,
                           privateKeyHex, privateKey, addr, admin, registry>>
            /\ UNCHANGED loopVars)

\* The bootstrap's methods with the third one registered under another name.
CoreFunction_renamed(label) ==
    CASE label = "register_ping" -> [name |-> "ping", needsAuth |-> FALSE]
      [] label = "register_Core_exit" -> [name |-> "Core_exit", needsAuth |-> TRUE]
      [] label = "register_memory" -> [name |-> "Core_memory", needsAuth |-> FALSE]

\* The bootstrap's methods with Core_exit open to every caller.
CoreFunction_exitOpen(label) ==
    CASE label = "register_ping" -> [name |-> "ping", needsAuth |-> FALSE]
      [] label = "register_Core_exit" -> [name |-> "Core_exit", needsAuth |-> FALSE]
      [] label = "register_memory" -> [name |-> "memory", needsAuth |-> FALSE]

\* The bootstrap's own methods, lines 297, 298 and 308.
CoreFunction(label) ==
    CASE label = "register_ping" -> [name |-> "ping", needsAuth |-> FALSE]
      [] label = "register_Core_exit" -> [name |-> "Core_exit", needsAuth |-> TRUE]
      [] label = "register_memory" -> [name |-> "memory", needsAuth |-> FALSE]

\* Lines 297, 298 and 302-308; the third copies a MemoryContext into the
\* allocator first.
RegisterCoreFunction ==
    /\ pc \in {"register_ping", "register_Core_exit", "register_memory"}
    /\ Allocator_malloc(IF pc = "register_memory" THEN MemoryContext_SIZE ELSE 0,
          /\ Admin_registerFunction(CoreFunction(pc).name, CoreFunction(pc).needsAuth,
                                    "Core_main")
          /\ Did)
    /\ UNCHANGED <<argc, argv, fromAngelPipe, blob, syncMagic, eh, toAngel, fromAngel,
                   alloc, wrappedLog, logger, buff, amountRead, config, pass,
                   privateKeyHex, privateKey, addr, admin, registry, calls>>
    /\ UNCHANGED loopVars

\* event_base_dispatch(eventBase)
StartEventLoop ==
    /\ pc = "event_base_dispatch"
    /\ Return /\ Did
    /\ UNCHANGED <<argc, argv, fromAngelPipe, blob, syncMagic, eh, toAngel, fromAngel,
                   alloc, wrappedLog, logger, buff, amountRead, config, pass,
                   privateKeyHex, privateKey, addr, admin, adminFunctions, registry,
                   calls>>
    /\ UNCHANGED <<bytesAllocated, requested>>
    /\ UNCHANGED loopVars

\* ------------------------------------- the event loop, entered at line 311
\* Bound: the number of callbacks the event loop runs.
MaxEvents == 2

Running ==
    /\ pc = "eventLoop"
    /\ events < MaxEvents

Dict_CONST(key, value) == [null |-> FALSE, entries |-> <<[k |-> key, val |-> value]>>]

String_OBJ(s) == [t |-> "s", v |-> s]

Int_OBJ(n) == [t |-> "i", v |-> n]

S_q == <<"q">>

S_pong == <<"p", "o", "n", "g">>

S_bytes == <<"b", "y", "t", "e", "s">>

\* What a callback does with a request: the dictionary it hands to
\* Admin_sendMessage, or the status it hands to exit.
Sends(dict) == [sends |-> TRUE, dict |-> dict, exits |-> FALSE, status |-> 0]

Exits(status) == [sends |-> FALSE, dict |-> NULL, exits |-> TRUE, status |-> status]

\* adminPing answering with the name of the method.
adminPing_echo(input) == Sends(Dict_CONST(S_q, String_OBJ(<<"p", "i", "n", "g">>)))

\* adminPing, lines 97-101.
adminPing(input) == Sends(Dict_CONST(S_q, String_OBJ(S_pong)))

\* adminMemory, lines 109-116.
adminMemory(input) == Sends(Dict_CONST(S_bytes, Int_OBJ(MallocAllocator_bytesAllocated)))

\* adminExit leaving with the status of success.
adminExit_success(input) == Exits(0)

\* adminExit, lines 118-121.
adminExit(input) == Exits(1)

\* The callback each of the bootstrap's names was registered with.
Callback(name, input) ==
    CASE name = "ping" -> adminPing(input)
      [] name = "memory" -> adminMemory(input)
      [] name = "Core_exit" -> adminExit(input)

\* Requests the admin channel may receive for the bootstrap's methods.
Txids == {"tx1", "tx2"}

AdminInputs ==
    {[null |-> FALSE, entries |-> <<>>], Dict_CONST(S_q, String_OBJ(S_pong)),
     Dict_CONST(S_bytes, String_OBJ(S_q))}

Admin_function(name) ==
    adminFunctions[CHOOSE i \in 1..Len(adminFunctions) : adminFunctions[i].name = name]

\* The admin channel runs the callback of a method that needs authentication
\* only for a caller who has authenticated.
Admin_allows(fn, authed) == ~fn.needsAuth \/ authed

\* Admin_sendMessage(&d, txid, admin): one message with the dictionary and
\* the transaction id, on the pipe the admin channel writes.
Admin_sendMessage(dict, txid) ==
    toAngelPipe' = Append(toAngelPipe,
                          [kind |-> "admin", data |-> [txid |-> txid, dict |-> dict]])

\* One request for ping, memory or Core_exit taken off the admin channel.
AdminCall ==
    /\ Running
    /\ \E name \in {"ping", "memory", "Core_exit"}, txid \in Txids,
          authed \in BOOLEAN, input \in AdminInputs :
         /\ HasFunction(name)
         /\ LET invoked == Admin_allows(Admin_function(name), authed)
                r == Callback(name, input)
            IN /\ requests' = Append(requests,
                                     [name |-> name, txid |-> txid, authed |-> authed,
                                      invoked |-> invoked, bytes |-> bytesAllocated])
               /\ IF ~invoked THEN UNCHANGED <<pc, exitStatus, toAngelPipe>>
                  ELSE IF r.exits
                  THEN /\ pc' = "exited"
                       /\ exitStatus' = r.status
                       /\ UNCHANGED toAngelPipe
                  ELSE /\ Admin_sendMessage(r.dict, txid)
                       /\ UNCHANGED <<pc, exitStatus>>
    /\ events' = events + 1
    /\ UNCHANGED <<argc, argv, fromAngelPipe, blob, syncMagic, eh, toAngel, fromAngel,
                   alloc, wrappedLog, logger, buff, amountRead, config, pass,
                   privateKeyHex, privateKey, addr, admin, adminFunctions, registry,
                   calls, lastError, trace, bytesAllocated, childBytes, lastDispatch,
                   requested>>

\* A callback allocates, from the root allocator or from a child of it.
EventAllocates ==
    /\ Running
    /\ \E size \in LoopSizes, inChild \in BOOLEAN :
         /\ requested' = size
         /\ IF bytesAllocated + size <= ALLOCATOR_FAILSAFE
            THEN /\ bytesAllocated' = bytesAllocated + size
                 /\ childBytes' = IF inChild THEN childBytes + size ELSE childBytes
                 /\ UNCHANGED <<pc, lastError, argc, argv, fromAngelPipe, toAngelPipe,
                                blob, syncMagic, eh, toAngel, fromAngel, alloc,
                                wrappedLog, logger, buff, amountRead, config, pass,
                                privateKeyHex, privateKey, addr, admin,
                                adminFunctions, registry, calls, requests,
                                exitStatus, lastDispatch>>
            ELSE OutOfMemory
    /\ events' = events + 1
    /\ UNCHANGED trace

\* A callback frees the child allocator: all it held leaves the count.
EventFreesChild ==
    /\ Running
    /\ childBytes > 0
    /\ bytesAllocated' = bytesAllocated - childBytes
    /\ childBytes' = 0
    /\ events' = events + 1
    /\ UNCHANGED <<pc, argc, argv, fromAngelPipe, toAngelPipe, blob, syncMagic, eh,
                   toAngel, fromAngel, alloc, wrappedLog, logger, buff, amountRead,
                   config, pass, privateKeyHex, privateKey, addr, admin,
                   adminFunctions, registry, calls, lastError, trace, requests,
                   exitStatus, lastDispatch, requested>>

\* DHTModuleRegistry_handleIncoming: the message is offered to the modules in
\* the order of the registry, up to and including the first whose predicate
\* matches; matches is the set of modules whose predicate the message meets.
Offer(matches) ==
    LET hits == {i \in 1..Len(registry) : registry[i] \in matches}
        first == CHOOSE i \in hits : \A j \in hits : i <= j
    IN IF hits = {}
       THEN [matches |-> matches, offered |-> registry, consumedBy |-> "none"]
       ELSE [matches |-> matches, offered |-> SubSeq(registry, 1, first),
             consumedBy |-> registry[first]]

Modules == {"ReplyModule", "RouterModule", "SerializationModule"}

HandleIncoming ==
    /\ Running
    /\ \E matches \in SUBSET Modules : lastDispatch' = Offer(matches)
    /\ events' = events + 1
    /\ UNCHANGED <<pc, argc, argv, fromAngelPipe, toAngelPipe, blob, syncMagic, eh,
                   toAngel, fromAngel, alloc, wrappedLog, logger, buff, amountRead,
                   config, pass, privateKeyHex, privateKey, addr, admin,
                   adminFunctions, registry, calls, lastError, trace, bytesAllocated,
                   childBytes, requests, exitStatus, requested>>

Next ==
    \/ GenerateSyncMagic
    \/ CheckArgs
    \/ NewAllocator
    \/ OpenToAngel
    \/ SetupPreLogger
    \/ ReadInitialConfig
    \/ ParseInitialConfig
    \/ ValidateConfig
    \/ SendResponse
    \/ AdminNew
    \/ SetupLogger
    \/ ParsePrivateKey
    \/ Construct
    \/ NewRegistry
    \/ RegisterModule
    \/ RegisterModuleMethods
    \/ RegisterCoreFunction
    \/ StartEventLoop

\* Core_main alone, up to its call of event_base_dispatch.
Spec == Init /\ [][Next]_vars

\* The process: Core_main, then the callbacks the event loop runs.
ProcessNext ==
    \/ Next
    \/ AdminCall
    \/ EventAllocates
    \/ EventFreesChild
    \/ HandleIncoming

ProcessSpec == Init /\ [][ProcessNext]_vars

\* ================================================================ claims
InTrace(l) == \E i \in 1..Len(trace) : trace[i] = l

Count(l) == Cardinality({i \in 1..Len(trace) : trace[i] = l})

ResponseWritten == \E i \in 1..Len(toAngelPipe) : toAngelPipe[i].kind = "response"

RangeError == "Ip address outside of the FC00/8 range, invalid private key."

\* Statements that construct or register a module.
ModuleStatements ==
    {"Admin_new", "AdminLog_registerNew", "CryptoAuth_new", "SwitchCore_new",
     "DHTModuleRegistry_new", "ReplyModule_register", "RouterModule_register",
     "SerializationModule_register", "Ducttape_register", "SwitchPinger_new",
     "DefaultInterfaceController_new", "SwitchPinger_admin_register",
     "UDPInterface_admin_register", "RouterModule_admin_register",
     "AuthorizedPasswords_init", "Core_admin_register", "Security_admin_register"}

AdminChannelStatements == {"Admin_new", "AdminLog_registerNew"}

\* The phases as the claim orders them: magic 1, read 2, decode 3,
\* identity derivation 4, every module 5, event loop 6; 0 for the rest.
ClaimedPhase(l) ==
    CASE l = "randombytes" -> 1
      [] l = "Waiter_getData" -> 2
      [] l \in {"parseDictionary", "validateConfig"} -> 3
      [] l = "parsePrivateKey" -> 4
      [] l \in ModuleStatements -> 5
      [] l = "event_base_dispatch" -> 6
      [] OTHER -> 0

\* The phases as the code orders them: the admin channel and its logger form
\* a phase of their own, 4, before identity derivation, 5.
ActualPhase(l) ==
    CASE l = "randombytes" -> 1
      [] l = "Waiter_getData" -> 2
      [] l \in {"parseDictionary", "validateConfig"} -> 3
      [] l \in AdminChannelStatements -> 4
      [] l = "parsePrivateKey" -> 5
      [] l \in ModuleStatements \ AdminChannelStatements -> 6
      [] l = "event_base_dispatch" -> 7
      [] OTHER -> 0

\* The executed statements respect the phase order: no statement of an
\* earlier phase follows one of a later phase, and a phase begins only after
\* every earlier phase has run.
PhasesInOrder(Phase(_), last) ==
    \A j \in 1..Len(trace) :
        Phase(trace[j]) # 0 =>
            /\ \A i \in 1..(j - 1) : Phase(trace[i]) <= Phase(trace[j])
            /\ \A q \in 1..(Phase(trace[j]) - 1) :
                   q <= last => \E i \in 1..(j - 1) : Phase(trace[i]) = q

\* C1 as stated: the phases magic, read, decode, identity derivation, module
\* construction, event loop run in this order, and no module is constructed
\* before identity derivation has completed.
C1_Original == PhasesInOrder(ClaimedPhase, 6)

\* C1 amended: the phases run in the order magic, read, decode, admin channel
\* and admin logger, identity derivation, every other module, event loop; no
\* module other than the admin channel and its logger is constructed before
\* identity derivation has completed successfully.
C1_Amended ==
    /\ PhasesInOrder(ActualPhase, 7)
    /\ \A j \in 1..Len(trace) :
           trace[j] \in ModuleStatements \ AdminChannelStatements =>
               /\ \E i \in 1..(j - 1) : trace[i] = "parsePrivateKey"
               /\ Len(addr.ip6) = ADDRESS_BYTES
               /\ addr.ip6[1] = ADDRESS_PREFIX

C1_Witness ==
    /\ pc = "eventLoop"
    /\ \A l \in ModuleStatements : InTrace(l)
    /\ InTrace("parsePrivateKey")

\* C2 as stated: the response is on the outbound pipe only once the identity
\* has been derived and its address starts with 0xFC, and no run that wrote the
\* response fails on the address-range check.
C2_Original ==
    ResponseWritten =>
        /\ InTrace("parsePrivateKey")
        /\ addr.ip6[1] = ADDRESS_PREFIX
        /\ lastError # RangeError

\* C2 amended: the response is written only after the private key has been
\* validated as 64 hex characters decoding to 32 bytes, and before the
\* identity is derived; the address-range check runs after the response.
C2_Amended ==
    /\ ResponseWritten =>
           /\ InTrace("validateConfig")
           /\ ~privateKeyHex.null
           /\ privateKeyHex.len = PRIVATE_KEY_HEX_LEN
           /\ Len(privateKey) = PRIVATE_KEY_BYTES
    /\ (InTrace("parsePrivateKey") \/ pc = "parsePrivateKey") => ResponseWritten
    /\ lastError = RangeError => ResponseWritten

\* A run that wrote the response and then failed the address-range check.
C2_Witness ==
    /\ ResponseWritten
    /\ pc = "fatal"
    /\ lastError = RangeError

IdentityBearing ==
    {"CryptoAuth_new", "DHTModuleRegistry_new", "RouterModule_register",
     "Core_admin_register"}

\* C3: once a key has derived an address whose first byte is not 0xFC the run
\* is over with the range error: the key was derived once and never replaced,
\* no call received the derived public key or address, the crypto-session
\* layer, the registry, the router and the address-bearing admin registration
\* were not constructed and the event loop was not started.
C3_BadKeyIsFatal ==
    (InTrace("parsePrivateKey") /\ addr.ip6[1] # ADDRESS_PREFIX) =>
        /\ pc = "fatal"
        /\ lastError = RangeError
        /\ Count("parsePrivateKey") = 1
        /\ trace[Len(trace)] = "parsePrivateKey"
        /\ \A i \in 1..Len(calls) :
               /\ calls[i].fn \notin IdentityBearing
               /\ calls[i].publicKey = <<>>
               /\ calls[i].ip6 = <<>>
               /\ calls[i].privateKey = <<>>
        /\ registry = <<>>
        /\ ~InTrace("event_base_dispatch")

C3_Witness ==
    /\ InTrace("parsePrivateKey")
    /\ addr.ip6[1] # ADDRESS_PREFIX
    /\ pc = "fatal"

OverflowError == "initial config exceeds INITIAL_CONF_BUFF_SIZE"

\* The first n bytes the Angel sent hold a complete dictionary.
CompleteWithin(n) == parseDictionary(SubSeq(blob, 1, Min(Len(blob), n))).ret = 0

\* C4: the read is fatal exactly when the buffer is exhausted without a
\* complete dictionary; a complete dictionary of any length up to and
\* including the buffer size goes on to decoding, a longer blob is fatal.
C4_ReadFatalIffIncomplete ==
    InTrace("Waiter_getData") =>
        /\ (lastError = OverflowError) <=>
               (Len(blob) >= AngelChan_INITIAL_CONF_BUFF_SIZE
                   /\ ~CompleteWithin(AngelChan_INITIAL_CONF_BUFF_SIZE))
        /\ (Len(blob) <= AngelChan_INITIAL_CONF_BUFF_SIZE
                /\ CompleteWithin(AngelChan_INITIAL_CONF_BUFF_SIZE)) =>
               (pc = "parseDictionary" \/ InTrace("parseDictionary"))
        /\ Len(blob) > AngelChan_INITIAL_CONF_BUFF_SIZE => pc = "fatal"

\* What C5 calls a malformed configuration, read off the bytes the Angel sent.
Malformed(b) ==
    LET d == parseDictionary(b)
        k == Dict_getString(d.dict, S_privateKey)
        a == Dict_getDict(d.dict, S_admin)
        p == Dict_getString(a, S_pass)
    IN \/ d.ret # 0
       \/ k.null
       \/ a.null
       \/ p.null
       \/ k.len # PRIVATE_KEY_HEX_LEN
       \/ \E i \in 1..k.len : HexDigitVal(k.bytes[i]) < 0

ConfigErrors ==
    {"Failed to parse initial configuration.",
     "Expected 'pass' and 'privateKey' in configuration.",
     "privateKey must be 64 bytes of hex."}

\* C5: a malformed configuration never gets a response, no module is
\* constructed for it, and the run is over with a fatal error as soon as the
\* decoding and validation steps have run.
C5_MalformedIsFatal ==
    Malformed(blob) =>
        /\ ~ResponseWritten
        /\ calls = <<>>
        /\ admin.null
        /\ pc # "eventLoop"
        /\ InTrace("validateConfig") => (pc = "fatal" /\ lastError \in ConfigErrors)
        /\ (InTrace("parseDictionary") /\ ~CompleteWithin(Len(blob))) =>
               (pc = "fatal" /\ lastError \in ConfigErrors)
        /\ ~InTrace("sendResponse")

C5_Witness ==
    /\ Malformed(blob)
    /\ CompleteWithin(Len(blob))
    /\ InTrace("validateConfig")
    /\ pc = "fatal"
    /\ ~privateKeyHex.null
    /\ privateKeyHex.len = PRIVATE_KEY_HEX_LEN + 1

\* All characters of s are decimal digits, and there is at least one.
Numeric(s) == s # <<>> /\ \A i \in 1..Len(s) : IsDigit(s[i])

\* After blanks and an optional sign, s goes on with digits of which one is
\* not "0".
LeadingNonZeroNumber(s) ==
    LET p == SkipSpace(s, 1)
        q == IF p <= Len(s) /\ s[p] \in {"-", "+"} THEN p + 1 ELSE p
    IN \E i \in q..(DigitsEnd(s, q) - 1) : s[i] # "0"

ArgsAccepted == pc = "MallocAllocator_new" \/ InTrace("MallocAllocator_new")

\* Nothing of the bootstrap has happened yet: no allocator, no byte read
\* from or written to a pipe.
RejectedAtStartup ==
    /\ pc = "fatal"
    /\ eh = "AbortHandler"
    /\ ~alloc
    /\ toAngelPipe = <<>>
    /\ fromAngelPipe = blob

C7_Original ==
    \A i \in 1..Len(calls) : calls[i].privateKey # <<>> => calls[i].fn = "CryptoAuth_new"

\* C7 amended: exactly two calls receive the raw private key, CryptoAuth_new
\* and Ducttape_register; the router receives the derived public key, the
\* core admin registration the derived address, and no other call a key.
C7_Amended ==
    \A i \in 1..Len(calls) :
        /\ calls[i].privateKey # <<>> <=> calls[i].fn \in {"CryptoAuth_new", "Ducttape_register"}
        /\ calls[i].privateKey # <<>> => calls[i].privateKey = privateKey
        /\ calls[i].publicKey # <<>> <=> calls[i].fn = "RouterModule_register"
        /\ calls[i].publicKey # <<>> => calls[i].publicKey = addr.key
        /\ calls[i].ip6 # <<>> <=> calls[i].fn = "Core_admin_register"
        /\ calls[i].ip6 # <<>> => calls[i].ip6 = addr.ip6

C7_Witness ==
    /\ pc = "eventLoop"
    /\ \E i \in 1..Len(calls) :
           calls[i].fn = "Ducttape_register" /\ calls[i].privateKey = privateKey
    /\ \E i \in 1..Len(calls) :
           calls[i].fn = "CryptoAuth_new" /\ calls[i].privateKey = privateKey

RegistryIndex(m) ==
    IF \E i \in 1..Len(registry) : registry[i] = m
    THEN CHOOSE i \in 1..Len(registry) : registry[i] = m
    ELSE 0

S_angel == <<"a", "n", "g", "e", "l">>
S_syncMagic == <<"s", "y", "n", "c", "M", "a", "g", "i", "c">>

LowerHex == {HexChars[i] : i \in 1..16}

\* The response {"angel": {"syncMagic": hex}} in its serialised form.
ExpectedResponse(hex) ==
    <<"d">> \o BStr(S_angel) \o <<"d">> \o BStr(S_syncMagic) \o BStr(hex) \o <<"e", "e">>

\* C9: the one response on the outbound pipe is the dictionary
\* {"angel": {"syncMagic": h}} where h is 16 lowercase hex characters that
\* decode to the 8 bytes of syncMagic, and Admin_new is given the same bytes.
C9_ResponseCarriesMagic ==
    /\ Cardinality({i \in 1..Len(toAngelPipe) : toAngelPipe[i].kind = "response"}) <= 1
    /\ \A i \in 1..Len(toAngelPipe) :
           toAngelPipe[i].kind = "response" =>
               LET d == toAngelPipe[i].data
                   h == Dict_getString(Dict_getDict(parseDictionary(d).dict, S_angel),
                                       S_syncMagic)
               IN /\ Len(syncMagic) = SYNC_MAGIC_BYTES
                  /\ ~h.null
                  /\ h.len = SYNC_MAGIC_HEX_LEN
                  /\ \A j \in 1..h.len : h.bytes[j] \in LowerHex
                  /\ HexPairs(h.bytes) = syncMagic
                  /\ d = ExpectedResponse(h.bytes)
    /\ ~admin.null => (ResponseWritten /\ admin.syncMagic = syncMagic)
    /\ \A i \in 1..Len(calls) :
           calls[i].fn = "Admin_new" => calls[i].syncMagic = syncMagic

C9_Witness ==
    /\ ResponseWritten
    /\ ~admin.null
    /\ \E i \in 1..SYNC_MAGIC_BYTES : syncMagic[i] > 159

Entries(name) == {i \in 1..Len(adminFunctions) : adminFunctions[i].name = name}

\* C10: the method table never holds a name twice; a registration of a name
\* already present ends the process at that registration, before the event
\* loop; and when the event loop starts, ping, Core_exit and memory are each
\* in the table once, registered by the bootstrap.
C10_MethodNamesDistinct ==
    /\ \A i, j \in 1..Len(adminFunctions) :
           adminFunctions[i].name = adminFunctions[j].name => i = j
    /\ lastError = "duplicate admin function" =>
           (pc = "aborted" /\ ~InTrace("event_base_dispatch"))
    /\ pc = "eventLoop" =>
           \A n \in {"ping", "Core_exit", "memory"} :
               /\ Cardinality(Entries(n)) = 1
               /\ \A i \in Entries(n) : adminFunctions[i].by = "Core_main"

\* The bootstrap registers ping when a module has already registered it.
C10_Witness ==
    /\ pc = "aborted"
    /\ lastError = "duplicate admin function"
    /\ trace[Len(trace)] = "register_ping"
    /\ Cardinality(Entries("ping")) = 1

\* The statements of Core_main that add to the DHT registry or to the admin
\* method table.
RegisteringStatements ==
    {"ReplyModule_register", "RouterModule_register", "SerializationModule_register",
     "SwitchPinger_admin_register", "UDPInterface_admin_register",
     "RouterModule_admin_register", "AuthorizedPasswords_init", "register_ping",
     "register_Core_exit", "Core_admin_register", "Security_admin_register",
     "register_memory"}

\* C11: when the event loop runs, every registering statement of Core_main has
\* been executed, and from the moment event_base_dispatch is entered no step
\* changes the DHT registry or the admin method table.
C11_RegistriesFrozen ==
    /\ [](pc = "eventLoop" => \A l \in RegisteringStatements : InTrace(l))
    /\ [][InTrace("event_base_dispatch") =>
              (registry' = registry /\ adminFunctions' = adminFunctions)]_vars

C11_Witness ==
    /\ InTrace("event_base_dispatch")
    /\ events > 1
    /\ requests # <<>>
    /\ lastDispatch.consumedBy # "none"
    /\ Len(registry) = 3
    /\ HasFunction("memory")

IsAdminMessage(m) == m.kind = "admin"

AdminMessages == SelectSeq(toAngelPipe, IsAdminMessage)

IsQuery(r) == r.name \in {"ping", "memory"}

Queries == SelectSeq(requests, IsQuery)

Pong ==
    [null |-> FALSE,
     entries |-> <<[k |-> <<"q">>, val |-> [t |-> "s", v |-> <<"p", "o", "n", "g">>]]>>]

Bytes(n) ==
    [null |-> FALSE,
     entries |-> <<[k |-> <<"b", "y", "t", "e", "s">>, val |-> [t |-> "i", v |-> n]]>>]

\* C12: the messages the admin channel has written answer the ping and memory
\* requests taken so far one for one and in order, each under the txid of its
\* request; a ping is answered {"q": "pong"} whatever its input, a memory
\* request {"bytes": n} with n the allocator's count when the request was
\* taken; and neither ends the process.
C12_QueriesAnswered ==
    /\ Len(AdminMessages) = Len(Queries)
    /\ \A i \in 1..Len(Queries) :
           /\ i <= Len(AdminMessages)
           /\ AdminMessages[i].data.txid = Queries[i].txid
           /\ Queries[i].name = "ping" => AdminMessages[i].data.dict = Pong
           /\ Queries[i].name = "memory" =>
                  AdminMessages[i].data.dict = Bytes(Queries[i].bytes)
    /\ (requests # <<>> /\ IsQuery(requests[Len(requests)])) => pc # "exited"

C12_Witness ==
    /\ Len(Queries) = 2
    /\ Queries[1].name = "memory"
    /\ Queries[1].bytes > SmallAlloc
    /\ Queries[2].name = "ping"
    /\ Queries[2].txid # Queries[1].txid
    /\ Len(AdminMessages) = 2

IsExit(r) == r.name = "Core_exit" /\ r.invoked

\* C13: a call of Core_exit is the last thing the process does: it ends at
\* once with a status other than zero, the call writes nothing to the admin
\* channel, and no step follows it.
C13_ExitIsImmediate ==
    /\ [](\A i \in 1..Len(requests) :
              IsExit(requests[i]) =>
                  /\ i = Len(requests)
                  /\ pc = "exited"
                  /\ exitStatus > 0
                  /\ Len(AdminMessages) = Len(Queries))
    /\ [](pc = "exited" => (requests # <<>> /\ IsExit(requests[Len(requests)])))
    /\ [][pc # "exited"]_vars
    /\ [][pc' = "exited" => toAngelPipe' = toAngelPipe]_vars

C13_Witness ==
    /\ pc = "exited"
    /\ exitStatus = 1
    /\ Len(requests) = 2
    /\ requests[1].name = "ping"
    /\ requests[1].txid = requests[2].txid
    /\ Len(AdminMessages) = 1

\* C14: the count of the root allocator never exceeds 2^22 bytes, every callee
\* of Core_main is given that allocator, a request that fits within 2^22 is
\* granted, and the process has ended out of memory exactly when the request
\* would have taken the count above 2^22.
C14_FailsafeHolds ==
    /\ bytesAllocated >= 0
    /\ bytesAllocated <= 4194304
    /\ childBytes <= bytesAllocated
    /\ \A i \in 1..Len(calls) : calls[i].alloc = TRUE
    /\ calls # <<>> => alloc = TRUE
    /\ lastError = "Out of memory" =>
           /\ pc = "aborted"
           /\ bytesAllocated + requested > 4194304

C14_Witness ==
    /\ lastError = "Out of memory"
    /\ bytesAllocated = 4194304
    /\ requested = SmallAlloc
    /\ pc = "aborted"

\* C15: with the reply module, the router module and the serialization module
\* registered in this order, a message that meets the predicates of both the
\* reply module and the router module is consumed by the reply module and is
\* not offered to the router module.
C15_ReplyShadowsRouter ==
    {"ReplyModule", "RouterModule"} \subseteq lastDispatch.matches =>
        /\ lastDispatch.consumedBy = "ReplyModule"
        /\ \A i \in 1..Len(lastDispatch.offered) :
               lastDispatch.offered[i] # "RouterModule"

C15_Witness ==
    /\ lastDispatch.matches = {"ReplyModule", "RouterModule"}
    /\ lastDispatch.consumedBy = "ReplyModule"
    /\ registry = <<"ReplyModule", "RouterModule", "SerializationModule">>

Responses == {i \in 1..Len(toAngelPipe) : toAngelPipe[i].kind = "response"}

ArgsError == "This is internal to cjdns and shouldn't started manually."

\* C17: the response is written at most once, and only when the configuration
\* was read without filling the buffer, was decoded, held both privateKey and
\* admin.pass, and the key was 64 hex characters decoded to 32 bytes; a run
\* that failed on its arguments, on the read, on decoding or on validation
\* has written no response.
C17_ResponseOnlyForGoodConfig ==
    /\ Cardinality(Responses) <= 1
    /\ ResponseWritten =>
           /\ amountRead < AngelChan_INITIAL_CONF_BUFF_SIZE
           /\ ~config.null
           /\ ~pass.null
           /\ ~privateKeyHex.null
           /\ privateKeyHex.len = 64
           /\ Len(privateKey) = 32
           /\ privateKey = Hex_decode(32, privateKeyHex.bytes, 64).out
    /\ lastError \in ConfigErrors \cup {OverflowError, ArgsError} => ~ResponseWritten

C17_Witness ==
    /\ Cardinality(Responses) = 1
    /\ pc = "eventLoop"
    /\ Len(AdminMessages) = 2
    /\ Len(privateKey) = 32

CoreEntries ==
    {adminFunctions[i] : i \in {j \in 1..Len(adminFunctions) :
                                    adminFunctions[j].by = "Core_main"}}

\* C18: Core_main registers Core_exit as needing authentication and ping and
\* memory as not needing it; a caller who has not authenticated gets ping and
\* memory run, never Core_exit, and the process exits only on the request of
\* a caller who has authenticated.
C18_ExitNeedsAuth ==
    /\ \A e \in CoreEntries :
           /\ e.name \in {"ping", "Core_exit", "memory"}
           /\ e.needsAuth <=> e.name = "Core_exit"
    /\ pc = "eventLoop" => {e.name : e \in CoreEntries} = {"ping", "Core_exit", "memory"}
    /\ \A i \in 1..Len(requests) :
           ~requests[i].authed =>
               /\ IsQuery(requests[i]) => requests[i].invoked
               /\ requests[i].name = "Core_exit" => ~requests[i].invoked
    /\ pc = "exited" => requests[Len(requests)].authed

C18_Witness ==
    /\ pc = "eventLoop"
    /\ Len(requests) = 2
    /\ requests[1].name = "Core_exit"
    /\ ~requests[1].authed
    /\ requests[2].name = "memory"
    /\ ~requests[2].authed
    /\ Len(AdminMessages) = 1

PipeErrors == ConfigErrors \cup {OverflowError, RangeError}

\* C19: the error about the arguments is raised with the abort handler in
\* force and nothing is written to the Angel; from the opening of the pipe to
\* the Angel on the write handler is in force and stays so, and each error of
\* the read, of decoding, of validation and of the address range is written
\* to that pipe as the last thing the process does.
C19_HandlerByPhase ==
    /\ [](lastError = ArgsError => (eh = "AbortHandler" /\ toAngelPipe = <<>>))
    /\ [](eh = "WriteErrorHandler" <=> (InTrace("fdopen") /\ toAngel \in OpenFds))
    /\ [](lastError \in PipeErrors =>
              /\ eh = "WriteErrorHandler"
              /\ pc = "fatal"
              /\ toAngelPipe # <<>>
              /\ toAngelPipe[Len(toAngelPipe)].kind = "error"
              /\ toAngelPipe[Len(toAngelPipe)].data = lastError)
    /\ [][eh = "WriteErrorHandler" => eh' = "WriteErrorHandler"]_vars
    /\ [][eh = "AbortHandler" => eh' \in {"AbortHandler", "WriteErrorHandler"}]_vars

C19_Witness ==
    /\ lastError = RangeError
    /\ eh = "WriteErrorHandler"
    /\ Len(toAngelPipe) = 2
    /\ toAngelPipe[1].kind = "response"
    /\ toAngelPipe[2].kind = "error"

\* The calls Core_main has made after AdminLog_registerNew.
AfterAdminLog ==
    {i \in 1..Len(calls) :
        \E j \in 1..Len(calls) : j < i /\ calls[j].fn = "AdminLog_registerNew"}

LoggerSwitched == InTrace("AdminLog_registerNew")

\* C20 as given: the indirect logger forwards to the pre-logger until the
\* admin logger is registered and to the admin logger afterwards, and every
\* callee after that is given the admin logger.
C20_Original ==
    /\ (InTrace("setupPreLogger") /\ ~LoggerSwitched) => wrappedLog = "preLogger"
    /\ LoggerSwitched => wrappedLog = "adminLogger"
    /\ \A i \in AfterAdminLog : calls[i].logger = "adminLogger"

\* The callees after AdminLog_registerNew that take no logger at all.
NoLoggerParameter ==
    {"DHTModuleRegistry_new", "ReplyModule_register", "SerializationModule_register",
     "SwitchPinger_admin_register", "RouterModule_admin_register",
     "AuthorizedPasswords_init"}

\* C20, amended: the indirect logger forwards to the pre-logger from its
\* creation until the admin logger is registered, the admin channel being
\* built in between with the indirect logger; from then on it forwards to the
\* admin logger and never to the pre-logger again, and every callee is given
\* the admin logger or, for those that take no logger, none.
C20_Amended ==
    /\ []((InTrace("setupPreLogger") /\ ~LoggerSwitched) =>
              (wrappedLog = "preLogger" /\ logger = "indirectLogger"))
    /\ [](LoggerSwitched => (wrappedLog = "adminLogger" /\ logger = "adminLogger"))
    /\ [](~admin.null => admin.logger = "indirectLogger")
    /\ [](\A i \in AfterAdminLog :
              calls[i].logger = IF calls[i].fn \in NoLoggerParameter
                                THEN "none" ELSE "adminLogger")
    /\ [](\A i \in 1..Len(calls) : calls[i].logger # "preLogger")
    /\ [][wrappedLog = "adminLogger" => wrappedLog' = "adminLogger"]_vars
    /\ [][wrappedLog' # wrappedLog =>
              \/ (wrappedLog = "none" /\ wrappedLog' = "preLogger")
              \/ (wrappedLog = "preLogger" /\ wrappedLog' = "adminLogger")]_vars

C20_Witness ==
    /\ pc = "eventLoop"
    /\ wrappedLog = "adminLogger"
    /\ admin.logger = "indirectLogger"
    /\ \E i \in AfterAdminLog : calls[i].fn = "Security_admin_register"
    /\ \E i \in AfterAdminLog : calls[i].logger = "none"

====
